---- MODULE Spec2Model ----
(***************************************************************************)
(* Model of src/src/components/CityMap.tsx: a React component that owns    *)
(* one maplibre map, a list of marker handles rebuilt from the selected    *)
(* category, and the popups opened by clicking markers.                    *)
(*                                                                         *)
(* React state (mapError, isLoading, selectedCategory) holds the latest    *)
(* value set by a handler; `rendered` holds the values of the last         *)
(* committed render, which are the values the closures of that render      *)
(* (addMarkers, the marker effect, the chip handlers) see.  The load and   *)
(* error handlers are registered once by the mount effect and therefore    *)
(* keep the closure of the first render.                                   *)
(*                                                                         *)
(* Coordinates are scaled by 10^4 to integers.  Names are written in       *)
(* ASCII.                                                                  *)
(***************************************************************************)
EXTENDS Integers, Sequences, FiniteSets, TLC

VARIABLES
    pois,             \* the POI store read by addMarkers and the chips
    phase,            \* "committed": first render committed, effects not yet run; "mounted"; "unmounted"
    mapRef,           \* mapRef.current: NULL or "map"
    mapStatus,        \* the maplibre Map object: "none", "alive", "removed"
    mapsConstructed,  \* number of `new maplibregl.Map` evaluations
    cleanupRegistered,\* the mount effect returned its cleanup function
    loadFired,        \* the map has emitted its one 'load' event
    markersRef,       \* markersRef.current: sequence of marker handles
    mapMarkers,       \* markers attached to the map (Marker.addTo / Marker.remove)
    popups,           \* popups attached to the map
    mapError,         \* React state
    isLoading,        \* React state
    selectedCategory, \* React state
    rendered,         \* state values of the last committed render
    effectPending,    \* the marker effect is scheduled after a commit
    lastEvent,        \* history: the handler that ran last
    filterAtLoad,     \* history: selectedCategory when the load handler ran
    lastRebuild       \* history: the most recent addMarkers run

vars == <<pois, phase, mapRef, mapStatus, mapsConstructed, cleanupRegistered, loadFired,
          markersRef, mapMarkers, popups, mapError, isLoading, selectedCategory,
          rendered, effectPending, lastEvent, filterAtLoad, lastRebuild>>

NULL == "null"

\* Bound on the number of simultaneously open popups.
MaxPopups == 2

\* Bound on the length of the POI stores other than the seeded one.
MaxDataset == 4

----------------------------------------------------------------------------
(* Static data *)

PARIS_POIS ==
    << [id |-> "1", name |-> "Eiffel Tower", category |-> "landmarks",
        coordinates |-> <<22945, 488584>>,
        description |-> "Iconic iron lattice tower and symbol of Paris"],
       [id |-> "2", name |-> "Louvre Museum", category |-> "art",
        coordinates |-> <<23376, 488606>>,
        description |-> "World's largest art museum and historic monument"],
       [id |-> "3", name |-> "Notre-Dame Cathedral", category |-> "history",
        coordinates |-> <<23499, 488530>>,
        description |-> "Medieval Catholic cathedral and Gothic architecture masterpiece"],
       [id |-> "4", name |-> "Sacre-Coeur Basilica", category |-> "culture",
        coordinates |-> <<23431, 488867>>,
        description |-> "Roman Catholic church and minor basilica in Montmartre"],
       [id |-> "5", name |-> "Le Comptoir du Relais", category |-> "food",
        coordinates |-> <<23387, 488532>>,
        description |-> "Traditional French bistro in Saint-Germain"],
       [id |-> "6", name |-> "Arc de Triomphe", category |-> "landmarks",
        coordinates |-> <<22950, 488738>>,
        description |-> "Monumental arch honoring fallen French soldiers"],
       [id |-> "7", name |-> "Musee d'Orsay", category |-> "art",
        coordinates |-> <<23266, 488600>>,
        description |-> "Museum housing world's finest collection of Impressionist art"],
       [id |-> "8", name |-> "L'As du Fallafel", category |-> "food",
        coordinates |-> <<23590, 488575>>,
        description |-> "Famous falafel restaurant in the Marais district"] >>

\* POI stores: the leading POIs of the seeded list; those of at most four
\* POIs hold no 'food' POI
Datasets == {SubSeq(PARIS_POIS, 1, n) : n \in 0..MaxDataset}

CATEGORIES == <<"all", "landmarks", "food", "art", "history", "culture">>

CategoryIds == {CATEGORIES[i] : i \in 1..Len(CATEGORIES)}

getCategoryColor(category) ==
    CASE category = "landmarks" -> "#FF6B6B"
      [] category = "food"      -> "#4ECDC4"
      [] category = "art"       -> "#45B7D1"
      [] category = "history"   -> "#96CEB4"
      [] category = "culture"   -> "#FECA57"
      [] OTHER                  -> "#6C5CE7"

----------------------------------------------------------------------------
(* Sequence helpers *)

RECURSIVE SelectPOIs(_, _)
\* Array.prototype.filter with the predicate poi.category === f
SelectPOIs(s, f) ==
    IF s = <<>> THEN <<>>
    ELSE IF Head(s).category = f
         THEN <<Head(s)>> \o SelectPOIs(Tail(s), f)
         ELSE SelectPOIs(Tail(s), f)

RECURSIVE RemoveOne(_, _)
\* Marker.remove(): detach one occurrence of handle m from the map
RemoveOne(s, m) ==
    IF s = <<>> THEN <<>>
    ELSE IF Head(s) = m THEN Tail(s)
         ELSE <<Head(s)>> \o RemoveOne(Tail(s), m)

RemoveEachNone(onMap, handles) == onMap

RECURSIVE RemoveEach(_, _)
\* markersRef.current.forEach(marker => marker.remove())
RemoveEach(onMap, handles) ==
    IF handles = <<>> THEN onMap
    ELSE RemoveEach(RemoveOne(onMap, Head(handles)), Tail(handles))

----------------------------------------------------------------------------
(* addMarkers *)

FilteredPOIsAll(f) == pois

FilteredPOIsFallback(f) ==
    IF f = "all" \/ SelectPOIs(pois, f) = <<>> THEN pois ELSE SelectPOIs(pois, f)

\* lines 159-161
FilteredPOIs(f) ==
    IF f = "all" THEN pois ELSE SelectPOIs(pois, f)

PopupOfFirst(poi) ==
    [html   |-> <<PARIS_POIS[1].name, PARIS_POIS[1].description, PARIS_POIS[1].category>>,
     lngLat |-> PARIS_POIS[1].coordinates]

\* lines 172-185: the popup built for poi and the anchor its click handler sets
PopupOf(poi) ==
    [html   |-> <<poi.name, poi.description, poi.category>>,
     lngLat |-> poi.coordinates]

\* lines 165-185: the marker handle created for poi
MarkerOf(poi) ==
    [poi    |-> poi.id,
     lngLat |-> poi.coordinates,
     color  |-> getCategoryColor(poi.category),
     popup  |-> PopupOf(poi)]

NewMarkersReversed(f) ==
    LET fp == FilteredPOIs(f)
    IN  [i \in 1..Len(fp) |-> MarkerOf(fp[Len(fp) + 1 - i])]

\* lines 164-188: one marker per filtered POI, in order
NewMarkers(f) ==
    LET fp == FilteredPOIs(f)
    IN  [i \in 1..Len(fp) |-> MarkerOf(fp[i])]

KeptHandles == markersRef

\* line 156: markersRef.current = []
ClearedHandles == <<>>

AddMarkersRunsAlways == TRUE

\* line 152
AddMarkersRuns == mapRef # NULL

AddMarkersPopupsClosed == {}

\* lines 154-156: clearing removes markers only; the popups are not bound
\* to the markers (no setPopup) and stay attached to the map
AddMarkersPopups == popups

\* lines 151-189, value of markersRef.current afterwards
AddMarkersRef(f) ==
    IF AddMarkersRuns THEN ClearedHandles \o NewMarkers(f) ELSE markersRef

\* lines 151-189, markers attached to the map afterwards
AddMarkersMap(f) ==
    IF AddMarkersRuns
    THEN RemoveEach(mapMarkers, markersRef) \o NewMarkers(f)
    ELSE mapMarkers

\* history kept by a step that runs no rebuild: f is the filter of the most
\* recent rebuild, fresh tells that the step just taken ran one, twice that
\* it ran with the filter of the rebuild before it
NoRebuild == [f |-> lastRebuild.f, twice |-> FALSE, fresh |-> FALSE]

RebuildRecord(f) ==
    IF AddMarkersRuns
    THEN [f |-> f, twice |-> lastRebuild.f = f, fresh |-> TRUE]
    ELSE NoRebuild

----------------------------------------------------------------------------
(* React state *)

State == [mapError |-> mapError, isLoading |-> isLoading,
          selectedCategory |-> selectedCategory]

MarkerEffectDepsNoLoading(r) == <<r.selectedCategory>>

\* line 196
MarkerEffectDeps(r) == <<r.selectedCategory, r.isLoading>>

MarkerEffectGuardNoLoading == mapRef # NULL

\* line 193
MarkerEffectGuard == mapRef # NULL /\ ~rendered.isLoading

\* line 199; the container div is rendered unless the error panel is
ContainerRef == rendered.mapError = NULL

LoadUpdatesClearError == [mapError |-> NULL, isLoading |-> FALSE]

\* line 232
LoadUpdates == [mapError |-> mapError, isLoading |-> FALSE]

ErrorUpdatesStillLoading == [mapError |-> "Failed to load map", isLoading |-> isLoading]

\* lines 239-240
ErrorUpdates == [mapError |-> "Failed to load map", isLoading |-> FALSE]

\* lines 245-246
CatchUpdates == [mapError |-> "Failed to initialize map", isLoading |-> FALSE]

ChipOnClickAll(c) == "all"

\* line 347
ChipOnClick(c) == c

\* line 261: the filter bar is part of the render output unless the error
\* panel is returned instead
FilterBarShown == phase # "unmounted" /\ rendered.mapError = NULL

BadgeFiltered(c) ==
    IF rendered.selectedCategory = c
    THEN <<Len(SelectPOIs(pois, c))>>
    ELSE <<>>

\* lines 359-366: the count badge rendered in the chip of category c, <<>>
\* when the chip shows none
Badge(c) ==
    IF rendered.selectedCategory = c
    THEN IF rendered.selectedCategory = "all"
         THEN <<Len(pois)>>
         ELSE <<Len(SelectPOIs(pois, c))>>
    ELSE <<>>

----------------------------------------------------------------------------
\* the state after the first render with POI store d
InitWith(d) ==
    /\ pois = d
    /\ phase = "committed"
    /\ mapRef = NULL
    /\ mapStatus = "none"
    /\ mapsConstructed = 0
    /\ cleanupRegistered = FALSE
    /\ loadFired = FALSE
    /\ markersRef = <<>>
    /\ mapMarkers = <<>>
    /\ popups = {}
    /\ mapError = NULL
    /\ isLoading = TRUE
    /\ selectedCategory = "all"
    /\ rendered = [mapError |-> NULL, isLoading |-> TRUE, selectedCategory |-> "all"]
    /\ effectPending = FALSE
    /\ lastEvent = [type |-> "render", arg |-> "first"]
    /\ filterAtLoad = "none"
    /\ lastRebuild = [f |-> "none", twice |-> FALSE, fresh |-> FALSE]

\* line 17: the seeded POI store
Init == InitWith(PARIS_POIS)

\* the component over each of the POI stores
InitData == \E d \in Datasets : InitWith(d)

\* lines 192-196 then 198-259 after the first commit; the marker effect finds
\* mapRef.current null.  ok = FALSE: the Map constructor throws.
MountEffects(ok) ==
    /\ phase = "committed"
    /\ ContainerRef /\ mapRef = NULL
    /\ phase' = "mounted"
    /\ mapsConstructed' = mapsConstructed + 1
    /\ cleanupRegistered' = TRUE
    /\ IF ok
       THEN /\ mapRef' = "map"
            /\ mapStatus' = "alive"
            /\ UNCHANGED <<mapError, isLoading>>
       ELSE /\ mapError' = CatchUpdates.mapError
            /\ isLoading' = CatchUpdates.isLoading
            /\ UNCHANGED <<mapRef, mapStatus>>
    /\ lastEvent' = [type |-> "mount", arg |-> IF ok THEN "ok" ELSE "throw"]
    /\ lastRebuild' = NoRebuild
    /\ UNCHANGED <<pois, loadFired, markersRef, mapMarkers, popups, selectedCategory,
                   rendered, effectPending, filterAtLoad>>

\* lines 231-235; the handler closes over the first render (selectedCategory
\* 'all').  State setters of an unmounted component are dropped.
LoadHandler ==
    /\ mapStatus # "none"
    /\ ~loadFired
    /\ loadFired' = TRUE
    /\ IF phase = "mounted"
       THEN /\ mapError' = LoadUpdates.mapError
            /\ isLoading' = LoadUpdates.isLoading
       ELSE UNCHANGED <<mapError, isLoading>>
    /\ markersRef' = AddMarkersRef("all")
    /\ mapMarkers' = AddMarkersMap("all")
    /\ lastRebuild' = RebuildRecord("all")
    /\ filterAtLoad' = selectedCategory
    /\ popups' = IF AddMarkersRuns THEN AddMarkersPopups ELSE popups
    /\ lastEvent' = [type |-> "load", arg |-> "all"]
    /\ UNCHANGED <<pois, phase, mapRef, mapStatus, mapsConstructed, cleanupRegistered,
                   selectedCategory, rendered, effectPending>>

\* lines 237-241; the map emits 'error' for any failure, any number of times
ErrorHandler ==
    /\ mapStatus # "none"
    /\ IF phase = "mounted"
       THEN /\ mapError' = ErrorUpdates.mapError
            /\ isLoading' = ErrorUpdates.isLoading
       ELSE UNCHANGED <<mapError, isLoading>>
    /\ lastEvent' = [type |-> "error", arg |-> "event"]
    /\ lastRebuild' = NoRebuild
    /\ UNCHANGED <<pois, phase, mapRef, mapStatus, mapsConstructed, cleanupRegistered,
                   loadFired, markersRef, mapMarkers, popups, selectedCategory,
                   rendered, effectPending, filterAtLoad>>

\* line 347; the filter bar is rendered unless the error panel is (line 261)
SelectFilter(c) ==
    /\ phase = "mounted"
    /\ rendered.mapError = NULL
    /\ selectedCategory' = ChipOnClick(c)
    /\ lastEvent' = [type |-> "select", arg |-> c]
    /\ lastRebuild' = NoRebuild
    /\ UNCHANGED <<pois, phase, mapRef, mapStatus, mapsConstructed, cleanupRegistered,
                   loadFired, markersRef, mapMarkers, popups, mapError, isLoading,
                   rendered, effectPending, filterAtLoad>>

\* a re-render and commit after a state change; schedules the marker effect
\* when its dependencies changed (line 196)
Render ==
    /\ phase = "mounted"
    /\ ~effectPending
    /\ State # rendered
    /\ rendered' = State
    /\ effectPending' = (MarkerEffectDeps(State) # MarkerEffectDeps(rendered))
    /\ lastEvent' = [type |-> "render", arg |-> "update"]
    /\ lastRebuild' = NoRebuild
    /\ UNCHANGED <<pois, phase, mapRef, mapStatus, mapsConstructed, cleanupRegistered,
                   loadFired, markersRef, mapMarkers, popups, mapError, isLoading,
                   selectedCategory, filterAtLoad>>

\* lines 192-196 with the closure of the last committed render
MarkerEffect ==
    /\ phase = "mounted"
    /\ effectPending
    /\ effectPending' = FALSE
    /\ IF MarkerEffectGuard
       THEN /\ markersRef' = AddMarkersRef(rendered.selectedCategory)
            /\ mapMarkers' = AddMarkersMap(rendered.selectedCategory)
            /\ lastRebuild' = RebuildRecord(rendered.selectedCategory)
            /\ popups' = IF AddMarkersRuns THEN AddMarkersPopups ELSE popups
       ELSE /\ UNCHANGED <<markersRef, mapMarkers, popups>>
            /\ lastRebuild' = NoRebuild
    /\ lastEvent' = [type |-> "effect", arg |-> rendered.selectedCategory]
    /\ UNCHANGED <<pois, phase, mapRef, mapStatus, mapsConstructed, cleanupRegistered,
                   loadFired, mapError, isLoading, selectedCategory,
                   rendered, filterAtLoad>>

\* lines 183-185: click on the element of a marker attached to the map; the
\* element is in the document only while the container div is rendered
MarkerClick(i) ==
    /\ phase = "mounted"
    /\ rendered.mapError = NULL
    /\ i \in 1..Len(mapMarkers)
    /\ mapRef # NULL
    /\ Cardinality(popups \cup {mapMarkers[i].popup}) <= MaxPopups
    /\ popups' = popups \cup {mapMarkers[i].popup}
    /\ lastEvent' = [type |-> "click", arg |-> mapMarkers[i].poi]
    /\ lastRebuild' = NoRebuild
    /\ UNCHANGED <<pois, phase, mapRef, mapStatus, mapsConstructed, cleanupRegistered,
                   loadFired, markersRef, mapMarkers, mapError, isLoading,
                   selectedCategory, rendered, effectPending, filterAtLoad>>

\* line 172: the popup is created with the default options, so the user can
\* close it (close button, click on the map)
ClosePopup(p) ==
    /\ phase = "mounted"
    /\ rendered.mapError = NULL
    /\ p \in popups
    /\ popups' = popups \ {p}
    /\ lastEvent' = [type |-> "close", arg |-> "popup"]
    /\ lastRebuild' = NoRebuild
    /\ UNCHANGED <<pois, phase, mapRef, mapStatus, mapsConstructed, cleanupRegistered,
                   loadFired, markersRef, mapMarkers, mapError, isLoading,
                   selectedCategory, rendered, effectPending, filterAtLoad>>

CleanupHandlesKept == markersRef

\* line 252
CleanupHandles == <<>>

\* lines 249-258: unmount; a scheduled marker effect is flushed first, the
\* cleanup then removes whatever it created
Unmount ==
    /\ phase = "mounted"
    /\ phase' = "unmounted"
    /\ effectPending' = FALSE
    /\ IF cleanupRegistered
       THEN /\ markersRef' = CleanupHandles
            /\ mapMarkers' = RemoveEach(
                   IF effectPending /\ MarkerEffectGuard
                   THEN AddMarkersMap(rendered.selectedCategory) ELSE mapMarkers,
                   IF effectPending /\ MarkerEffectGuard
                   THEN AddMarkersRef(rendered.selectedCategory) ELSE markersRef)
            /\ IF mapRef # NULL
               THEN /\ mapStatus' = "removed"
                    /\ mapRef' = NULL
                    /\ popups' = {}
               ELSE UNCHANGED <<mapStatus, mapRef, popups>>
       ELSE /\ markersRef' = IF effectPending /\ MarkerEffectGuard
                             THEN AddMarkersRef(rendered.selectedCategory) ELSE markersRef
            /\ mapMarkers' = IF effectPending /\ MarkerEffectGuard
                             THEN AddMarkersMap(rendered.selectedCategory) ELSE mapMarkers
            /\ UNCHANGED <<mapStatus, mapRef, popups>>
    /\ lastEvent' = [type |-> "unmount", arg |-> IF mapError # NULL THEN "error"
                                                 ELSE IF isLoading THEN "initializing"
                                                 ELSE "loaded"]
    /\ lastRebuild' = [f |-> "none", twice |-> FALSE, fresh |-> FALSE]
    /\ UNCHANGED <<pois, mapsConstructed, cleanupRegistered, loadFired, mapError,
                   isLoading, selectedCategory, rendered, filterAtLoad>>

Next ==
    \/ \E ok \in BOOLEAN : MountEffects(ok)
    \/ LoadHandler
    \/ ErrorHandler
    \/ \E c \in CategoryIds : SelectFilter(c)
    \/ Render
    \/ MarkerEffect
    \/ \E i \in 1..Len(PARIS_POIS) : MarkerClick(i)
    \/ \E p \in popups : ClosePopup(p)
    \/ Unmount

Spec == Init /\ [][Next]_vars

SpecData == InitData /\ [][Next]_vars

----------------------------------------------------------------------------
(* Vocabulary of the properties *)

\* the host state of the specification, read off the React state
HostState ==
    IF mapError # NULL THEN "error"
    ELSE IF isLoading THEN "initializing" ELSE "loaded"

\* every state change has been rendered and its effect has run
Quiescent == phase = "mounted" /\ State = rendered /\ ~effectPending

POISet == {pois[i] : i \in 1..Len(pois)}

Matching(f) == {p \in POISet : f = "all" \/ p.category = f}

POIById(id) == CHOOSE p \in POISet : p.id = id

\* handles is exactly one marker per POI matching f
ExactlyMarkers(handles, f) ==
    /\ \A p \in Matching(f) :
           Cardinality({i \in 1..Len(handles) : handles[i].poi = p.id}) = 1
    /\ \A i \in 1..Len(handles) : \E p \in Matching(f) : handles[i].poi = p.id
    /\ Len(handles) = Cardinality(Matching(f))

----------------------------------------------------------------------------
(* C1: on a loaded map, once the render and the marker effect for the     *)
(* latest selection have run, the retained handles and the markers on the *)
(* map are exactly one marker per POI matching the selected category (all *)
(* POIs for 'all'): none stale, none missing, none duplicated.            *)
C1_MarkersReflectFilter ==
    (HostState = "loaded" /\ Quiescent) =>
        /\ ExactlyMarkers(markersRef, selectedCategory)
        /\ ExactlyMarkers(mapMarkers, selectedCategory)

C1_Witness ==
    /\ HostState = "loaded" /\ Quiescent
    /\ filterAtLoad = "all"
    /\ selectedCategory = "food"
    /\ lastEvent.type = "effect"
    /\ Len(mapMarkers) = 2

(* C2: when the map reports an error before it has loaded, the marker set *)
(* is empty in the error state, whatever happens to the filter state or   *)
(* the loading flag afterwards.                                           *)
C2_NoMarkersAfterError ==
    (HostState = "error" /\ ~loadFired) =>
        (markersRef = <<>> /\ mapMarkers = <<>>)

(* C3: after unmount from any host state the marker set is empty and the  *)
(* map is released (handle null, no live map); the mount effect registers *)
(* the cleanup on every path that attempted to construct a map.           *)
C3_TeardownReleases ==
    /\ phase = "unmounted" =>
           /\ markersRef = <<>> /\ mapMarkers = <<>>
           /\ mapRef = NULL /\ mapStatus # "alive"
    /\ mapsConstructed > 0 => cleanupRegistered

C3_Witness ==
    /\ phase = "unmounted"
    /\ lastEvent = [type |-> "unmount", arg |-> "loaded"]
    /\ mapStatus = "removed"
    /\ selectedCategory = "art"

(* C4: while the host is initializing (no load, no error signalled) the   *)
(* marker set is empty, also after filter selections made in that state.  *)
C4_NoMarkersWhileInitializing ==
    HostState = "initializing" => (markersRef = <<>> /\ mapMarkers = <<>>)

C4_Witness ==
    /\ HostState = "initializing"
    /\ mapRef # NULL
    /\ lastEvent = [type |-> "effect", arg |-> "food"]
    /\ selectedCategory = "food"
    /\ markersRef = <<>>

(* C5: the error state is entered only from initializing: the error       *)
(* message is never set once the loading flag has been cleared.           *)
C5_ErrorOnlyFromInitializing ==
    [][(mapError = NULL /\ mapError' # NULL) => isLoading]_vars

(* C6: once the error message is set it is never cleared, also when a     *)
(* load event arrives afterwards, and at most one map is ever constructed *)
(* during the mount.                                                      *)
C6_ErrorTerminal ==
    [][/\ mapError # NULL => (mapError' # NULL /\ mapsConstructed' = mapsConstructed)
       /\ mapsConstructed' <= 1]_vars

C6_Witness ==
    /\ mapError # NULL
    /\ loadFired
    /\ lastEvent.type = "load"
    /\ phase = "mounted"

(* C7: when the load handler ran while the filter was f and the filter is *)
(* still f, then once the render and the marker effect that follow the    *)
(* load have run the markers are exactly the POIs matching f, not those   *)
(* of the 'all' the load handler closed over.                             *)
C7_LoadBuildsCurrentFilter ==
    (/\ filterAtLoad # "none"
     /\ selectedCategory = filterAtLoad
     /\ HostState = "loaded" /\ Quiescent) =>
        {mapMarkers[i].poi : i \in 1..Len(mapMarkers)}
            = {p.id : p \in Matching(filterAtLoad)}

C7_Witness ==
    /\ filterAtLoad = "food"
    /\ selectedCategory = "food"
    /\ HostState = "loaded" /\ Quiescent
    /\ lastEvent.type = "effect"
    /\ [i \in 1..Len(mapMarkers) |-> mapMarkers[i].poi] = <<"5", "8">>

(* C8: a rebuild that runs with the same filter as the rebuild before it  *)
(* leaves the retained handles and the markers on the map as they were.   *)
C8_RebuildIdempotent ==
    [][(lastRebuild'.fresh /\ lastRebuild'.twice) =>
           (markersRef' = markersRef /\ mapMarkers' = mapMarkers)]_vars

C8_Witness ==
    /\ lastRebuild = [f |-> "all", twice |-> TRUE, fresh |-> TRUE]
    /\ lastEvent.type = "effect"
    /\ filterAtLoad = "all"
    /\ Len(markersRef) = 8

(* C9: the filter state is 'all' at mount; a step changes it only when it *)
(* is the selection of a filter control, which sets it to that control's  *)
(* category; every other handler leaves it unchanged.                     *)
C9_FilterOnlyBySelection ==
    /\ selectedCategory = "all"
    /\ [][/\ lastEvent'.type = "select" => selectedCategory' = lastEvent'.arg
          /\ lastEvent'.type # "select" => selectedCategory' = selectedCategory]_vars

C9_Witness ==
    /\ selectedCategory = "art"
    /\ lastEvent.type = "click"
    /\ loadFired

(* C10: a click on the marker of POI p opens the popup anchored at p's    *)
(* coordinates with p's name, description and category, and no other.     *)
C10_ClickOpensOwnPopup ==
    [][lastEvent'.type = "click" =>
           LET p == POIById(lastEvent'.arg)
           IN  popups' = popups \cup
                   {[html   |-> <<p.name, p.description, p.category>>,
                     lngLat |-> p.coordinates]}]_vars

C10_Witness ==
    /\ lastEvent = [type |-> "click", arg |-> "1"]
    /\ \E pp \in popups :
           /\ pp.html[1] = "Eiffel Tower"
           /\ pp.html[3] = "landmarks"
           /\ pp.lngLat = <<22945, 488584>>

(* C11: whenever the filter bar is shown exactly one chip, the selected  *)
(* one, shows a count badge; its value is the number of POIs passing the  *)
(* rendered filter (8 for 'all'), and on a loaded map with the marker     *)
(* effect done it is the number of markers on the map.                    *)
C11_BadgeCountsFiltered ==
    FilterBarShown =>
        /\ {c \in CategoryIds : Badge(c) # <<>>} = {rendered.selectedCategory}
        /\ Badge(rendered.selectedCategory)
               = <<Cardinality(Matching(rendered.selectedCategory))>>
        /\ rendered.selectedCategory = "all" => Badge("all") = <<8>>
        /\ (HostState = "loaded" /\ Quiescent) =>
               Badge(selectedCategory) = <<Len(mapMarkers)>>

C11_Witness ==
    /\ FilterBarShown
    /\ HostState = "loaded" /\ Quiescent
    /\ selectedCategory = "landmarks"
    /\ Badge("landmarks") = <<2>>
    /\ Badge("all") = <<>>
    /\ Len(mapMarkers) = 2

(* C13: in every reachable state the retained marker handles are exactly *)
(* the markers attached to the map: none on the map untracked, none       *)
(* tracked after removal.                                                 *)
C13_HandlesAreMapMarkers ==
    mapMarkers = markersRef

C13_Witness ==
    /\ mapMarkers = markersRef
    /\ Len(markersRef) = 1
    /\ lastRebuild = [f |-> "history", twice |-> FALSE, fresh |-> TRUE]
    /\ filterAtLoad = "all"

\* position of the POI with this id in the POI list
IndexOfPOI(id) == CHOOSE i \in 1..Len(pois) : pois[i].id = id

(* C14: the retained handles are in the POI list's order: they are the    *)
(* POIs passing the filter of the last rebuild, each before every POI     *)
(* that follows it in the list (for 'food': POI "5" then POI "8").        *)
C14_MarkersInStoreOrder ==
    lastRebuild.f # "none" =>
        /\ {markersRef[i].poi : i \in 1..Len(markersRef)}
               = {p.id : p \in Matching(lastRebuild.f)}
        /\ \A i, j \in 1..Len(markersRef) :
               i < j => IndexOfPOI(markersRef[i].poi) < IndexOfPOI(markersRef[j].poi)
        /\ lastRebuild.f = "food" =>
               [i \in 1..Len(markersRef) |-> markersRef[i].poi] = <<"5", "8">>

C14_Witness ==
    /\ lastRebuild = [f |-> "food", twice |-> FALSE, fresh |-> TRUE]
    /\ [i \in 1..Len(markersRef) |-> markersRef[i].poi] = <<"5", "8">>
    /\ markersRef[1].lngLat = <<23387, 488532>>
    /\ markersRef[2].lngLat = <<23590, 488575>>

(* C15: once the component is unmounted no step changes the marker set or *)
(* the map handle: a late load or error callback creates no marker and    *)
(* the handle stays null.                                                 *)
C15_NothingAfterTeardown ==
    [][phase = "unmounted" =>
           /\ markersRef' = <<>> /\ mapMarkers' = <<>>
           /\ mapRef' = NULL
           /\ mapStatus' = mapStatus
           /\ ~lastRebuild'.fresh]_vars

C15_Witness ==
    /\ phase = "unmounted"
    /\ lastEvent.type = "load"
    /\ mapStatus = "removed"
    /\ markersRef = <<>> /\ mapRef = NULL

(* C16: a rebuild leaves the set of open popups unchanged, also when the  *)
(* new filter excludes the POI of an open popup.                          *)
C16_RebuildKeepsPopups ==
    [][lastRebuild'.fresh => popups' = popups]_vars

C16_Witness ==
    /\ lastRebuild = [f |-> "food", twice |-> FALSE, fresh |-> TRUE]
    /\ \E pp \in popups : pp.html[1] = "Eiffel Tower"
    /\ \A i \in 1..Len(mapMarkers) : mapMarkers[i].poi # "1"
    /\ Len(mapMarkers) = 2

(* C17: the loading flag is true at mount, is false after every load      *)
(* event, error event or construction exception handled while mounted,    *)
(* changes only in those steps, and never returns to true.                *)
C17_LoadingMonotonic ==
    /\ (isLoading = TRUE /\ rendered.isLoading = TRUE)
    /\ [][/\ ~isLoading => ~isLoading'
          /\ ~rendered.isLoading => ~rendered'.isLoading
          /\ (phase = "mounted" /\ lastEvent'.type \in {"load", "error"}) => ~isLoading'
          /\ lastEvent' = [type |-> "mount", arg |-> "throw"] => ~isLoading'
          /\ isLoading' # isLoading => lastEvent'.type \in {"load", "error", "mount"}]_vars

C17_Witness ==
    /\ ~isLoading /\ ~rendered.isLoading
    /\ loadFired
    /\ lastEvent.type = "error"
    /\ phase = "mounted"

(* C12: a marker effect that rebuilds for a category no POI of the store  *)
(* has leaves the marker set empty and the error message and the loading  *)
(* flag as they were; every rebuild by the marker effect, also one that   *)
(* follows such an empty rebuild, yields exactly the markers of its       *)
(* category.                                                              *)
C12_EmptyCategoryNoError ==
    [][(lastEvent'.type = "effect" /\ lastRebuild'.fresh) =>
           /\ Matching(lastRebuild'.f) = {} =>
                  (markersRef' = <<>> /\ mapMarkers' = <<>>)
           /\ ExactlyMarkers(mapMarkers', lastRebuild'.f)
           /\ mapError' = mapError /\ isLoading' = isLoading
           /\ HostState' = HostState]_vars

C12_Witness ==
    /\ Len(pois) = 4
    /\ HostState = "loaded" /\ Quiescent
    /\ filterAtLoad = "all"
    /\ selectedCategory = "food"
    /\ Matching("food") = {}
    /\ lastEvent.type = "effect" /\ lastRebuild.fresh
    /\ mapMarkers = <<>> /\ markersRef = <<>>

====
